---- MODULE Spec2Model ----
(***************************************************************************)
(* KDG forensic tool: Analyser.py (load_csv, build_file_table, detect,     *)
(* generate_html, main) and Extractor.py (walk_directory).                 *)
(*                                                                         *)
(* Instants are integers: nanoseconds after 2022-12-31T23:59:59Z, the      *)
(* resolution pandas keeps.  NaT is the missing instant a data frame holds *)
(* where a time could not be parsed or a record has no value in a column.  *)
(***************************************************************************)
EXTENDS Integers, Sequences, FiniteSets, TLC

VARIABLES
    pc,         \* Analyser.main: the statement about to run
    csv,        \* timeline.csv: whether it exists, its header, its rows
    choice,     \* the option main read
    stdout,     \* what load_csv printed before leaving the process
    df_events,  \* the frame load_csv returned
    df_files,   \* the frame build_file_table returned, then detect annotated
    report,     \* what generate_html wrote
    wpc,        \* Extractor.extract_timeline: before, in or after the walk
    depth,      \* walk_directory generator frames alive (nested directories)
    counter,    \* counter[0], the list shared by every walk_directory frame
    yielded     \* entries walk_directory has yielded to extract_timeline

vars == <<pc, csv, choice, stdout, df_events, df_files, report,
          wpc, depth, counter, yielded>>

analyserVars == <<pc, csv, choice, stdout, df_events, df_files, report>>
walkVars == <<wpc, depth, counter, yielded>>

\* ------------------------------------------------------------- bounds
MaxRows == 2
MaxDepth == 2

\* ---------------------------------------------------------- constants
NaT == -1
TwoSeconds == 2000000000
SCAN_LIMIT == 10000

Required == <<"time", "type", "path", "partition", "inode", "size", "deleted">>

RequiredSet == {Required[i] : i \in 1..Len(Required)}

\* ------------------------------------------------------- conversions
\* pd.to_datetime(..., utc=True, errors="coerce") on one cell: the instant an
\* ISO-8601 text denotes, NaT for a text that is no time.
ToDatetime(s) ==
    CASE s = "2022-12-31T23:59:59Z"            -> 0
      [] s = "2022-12-31T23:59:59.000000001Z"  -> 1
      [] s = "2022-12-31T23:59:59.999999999Z"  -> 999999999
      [] s = "2023-01-01T00:00:00Z"            -> 1000000000
      [] s = "2023-01-01T00:00:00.5Z"          -> 1500000000
      [] s = "2023-01-01T00:00:01Z"            -> 2000000000
      [] OTHER                                 -> NaT

\* str.lower() on the texts a deleted cell holds.
Lower(s) ==
    CASE s = "True"  -> "true"
      [] s = "TRUE"  -> "true"
      [] s = "False" -> "false"
      [] s = "YES"   -> "yes"
      [] s = "Yes"   -> "yes"
      [] OTHER       -> s

\* df["deleted"].astype(str).str.lower().isin(["true","1","yes"]) on one cell.
ParseDeleted(s) == Lower(s) \in {"true", "1", "yes"}

\* Variant of Upper: the type cell is used as written.
UpperAsWritten(s) == s

\* str(row["type"]).upper() on the texts a type cell holds.
Upper(s) ==
    CASE s = "crtime" -> "CRTIME"
      [] s = "Crtime" -> "CRTIME"
      [] s = "atime"  -> "ATIME"
      [] s = "mtime"  -> "MTIME"
      [] s = "ctime"  -> "CTIME"
      [] OTHER        -> s

notna(x) == x # NaT

\* int(input(...)): the texts that are integers, and their values.
IsInt(s) == s \in {"1", "2", "3", "7"}

IntOf(s) ==
    CASE s = "1" -> 1
      [] s = "2" -> 2
      [] s = "3" -> 3
      [] OTHER   -> 7

\* ------------------------------------------------------------ load_csv
\* Variant of FirstMissing: the loop reports the last column the header lacks.
FirstMissingReversed(columns, i) ==
    LET idx == {j \in i..Len(Required) : Required[j] \notin columns}
    IN  IF idx = {} THEN "none"
        ELSE Required[CHOOSE j \in idx : \A k \in idx : k <= j]

\* The first required column the header lacks, in the order of `required`.
RECURSIVE FirstMissing(_, _)
FirstMissing(columns, i) ==
    IF i > Len(Required) THEN "none"
    ELSE IF Required[i] \notin columns THEN Required[i]
    ELSE FirstMissing(columns, i + 1)

ParseRow(row) ==
    [row EXCEPT !.time = ToDatetime(row.time),
                !.deleted = ParseDeleted(row.deleted)]

\* Variant of ParseRows: rows whose time did not parse are dropped.
ParseRowsDropNaT(rows) ==
    SelectSeq([i \in 1..Len(rows) |-> ParseRow(rows[i])],
              LAMBDA row : row.time # NaT)

ParseRows(rows) == [i \in 1..Len(rows) |-> ParseRow(rows[i])]

Perms(n) ==
    {p \in [1..n -> 1..n] : \A i, j \in 1..n : i # j => p[i] # p[j]}

\* df.sort_values("time"): ascending, NaT rows last in their original order;
\* the default sort is not stable, so rows of equal time come in any order.
SortedBy(rows, p) ==
    \A i, j \in 1..Len(rows) :
        i < j =>
            LET a == rows[p[i]].time
                b == rows[p[j]].time
            IN  /\ ~notna(a) => (~notna(b) /\ p[i] < p[j])
                /\ (notna(a) /\ notna(b)) => a <= b

SortValues(rows) ==
    {[i \in 1..Len(rows) |-> rows[p[i]]] :
        p \in {q \in Perms(Len(rows)) : SortedBy(rows, q)}}

\* ---------------------------------------------------- build_file_table
\* The paths the model uses, in the order groupby sorts its keys.
PathsSorted == <<"/a", "/b", "/home/user/doc.txt">>

PathsOf(df) == {df[i].path : i \in 1..Len(df)}

\* df.groupby("path", dropna=False): the keys present, sorted.
GroupKeys(df) == SelectSeq(PathsSorted, LAMBDA p : p \in PathsOf(df))

\* One group: the rows of a path, in the order they have in df.
Group(df, path) == SelectSeq(df, LAMBDA row : row.path = path)

\* record[key] = value on a dict.
SetItem(record, key, value) ==
    [k \in DOMAIN record \cup {key} |-> IF k = key THEN value ELSE record[k]]

\* Variant of ApplyRows: a kind already set is not overwritten.
RECURSIVE ApplyRowsKeepFirst(_, _, _)
ApplyRowsKeepFirst(record, g, i) ==
    IF i > Len(g) THEN record
    ELSE LET ttype == Upper(g[i].type)
         IN  ApplyRowsKeepFirst(IF notna(g[i].time) /\ ttype \notin DOMAIN record
                                  THEN SetItem(record, ttype, g[i].time)
                                  ELSE record,
                                g, i + 1)

\* for _, row in g.iterrows(): record[ttype] = row["time"] when it is a time.
RECURSIVE ApplyRows(_, _, _)
ApplyRows(record, g, i) ==
    IF i > Len(g) THEN record
    ELSE LET ttype == Upper(g[i].type)
         IN  ApplyRows(IF notna(g[i].time)
                         THEN SetItem(record, ttype, g[i].time)
                         ELSE record,
                       g, i + 1)

\* Variant of SeedRecord: the attributes come from the last row of the group.
SeedRecordLast(path, g) ==
    [path      |-> path,
     partition |-> g[Len(g)].partition,
     inode     |-> g[Len(g)].inode,
     size      |-> g[Len(g)].size,
     deleted   |-> g[Len(g)].deleted]

\* The four attributes, from the first row of the group.
SeedRecord(path, g) ==
    [path      |-> path,
     partition |-> g[1].partition,
     inode     |-> g[1].inode,
     size      |-> g[1].size,
     deleted   |-> g[1].deleted]

RecordOf(df, path) ==
    LET g == Group(df, path)
    IN  ApplyRows(SeedRecord(path, g), g, 1)

\* pd.DataFrame(rows): one column per key any record has, NaT where a record
\* lacks it.
DataFrame(rows) ==
    LET columns == UNION {DOMAIN rows[i] : i \in 1..Len(rows)}
    IN  [i \in 1..Len(rows) |->
            [k \in columns |-> IF k \in DOMAIN rows[i] THEN rows[i][k] ELSE NaT]]

build_file_table(df) ==
    LET keys == GroupKeys(df)
    IN  DataFrame([i \in 1..Len(keys) |-> RecordOf(df, keys[i])])

\* --------------------------------------------------------------- detect
\* r.get(key): the cell, None (not a time either) when there is no such column.
Get(r, key) == IF key \in DOMAIN r THEN r[key] ELSE NaT

RECURSIVE MaxSeq(_)
MaxSeq(s) ==
    IF Len(s) = 1 THEN s[1]
    ELSE LET m == MaxSeq(Tail(s)) IN IF s[1] > m THEN s[1] ELSE m

RECURSIVE MinSeq(_)
MinSeq(s) ==
    IF Len(s) = 1 THEN s[1]
    ELSE LET m == MinSeq(Tail(s)) IN IF s[1] < m THEN s[1] ELSE m

\* Variant of AccessBeforeCreation: an access at the creation instant counts.
AccessBeforeCreationInclusive(c, a) == notna(c) /\ notna(a) /\ a <= c

AccessBeforeCreation(c, a) == notna(c) /\ notna(a) /\ a < c

ModifiedBeforeCreation(c, m) == notna(c) /\ notna(m) /\ m < c

\* Variants of RapidActivity: a spread of two seconds counts; two times suffice.
RapidActivityInclusive(times) ==
    Len(times) >= 3 /\ MaxSeq(times) - MinSeq(times) <= TwoSeconds

RapidActivityOfTwo(times) ==
    Len(times) >= 2 /\ MaxSeq(times) - MinSeq(times) < TwoSeconds

RapidActivity(times) ==
    Len(times) >= 3 /\ MaxSeq(times) - MinSeq(times) < TwoSeconds

\* Variant of DeletedAccessed: the allocation flag is not consulted.
DeletedAccessedAny(deleted, a) == notna(a)

DeletedAccessed(deleted, a) == deleted /\ notna(a)

FlagsOf(r) ==
    LET c == Get(r, "CRTIME")
        a == Get(r, "ATIME")
        m == Get(r, "MTIME")
        t == Get(r, "CTIME")
        times == SelectSeq(<<c, a, m, t>>, notna)
    IN  (IF AccessBeforeCreation(c, a) THEN <<"Access before creation">> ELSE <<>>)
        \o (IF ModifiedBeforeCreation(c, m) THEN <<"Modified before creation">> ELSE <<>>)
        \o (IF RapidActivity(times) THEN <<"Rapid timestamp activity (<2s)">> ELSE <<>>)
        \o (IF DeletedAccessed(r.deleted, a) THEN <<"Deleted file accessed">> ELSE <<>>)

detect(df) ==
    [i \in 1..Len(df) |->
        LET flags == FlagsOf(df[i])
        IN  SetItem(SetItem(df[i], "flags", flags), "suspicious", Len(flags) > 0)]

\* -------------------------------------------------------- generate_html
generate_html(ch, events, files) ==
    CASE ch = 1 -> [title |-> "Suspicious Files",
                    rows  |-> SelectSeq(files, LAMBDA r : r.suspicious)]
      [] ch = 2 -> [title |-> "Full File Timeline", rows |-> files]
      [] OTHER  -> [title |-> "Raw Timeline Events", rows |-> events]

\* ---------------------------------------------------------------- inputs
SeqsUpTo(S, n) == UNION {[1..k -> S] : k \in 0..n}

\* What Extractor.extract_timeline writes for one entry: its partition label,
\* address, size and allocation flag, the same on each of its rows.
AttrBundles ==
    {[partition |-> "Linux (0x83)", inode |-> 12, size |-> 100, deleted |-> "False"],
     [partition |-> "NTFS (0x07)",  inode |-> 34, size |-> 0,   deleted |-> "True"]}

MakeRow(t, k, p, b) ==
    [time |-> t, type |-> k, path |-> p, partition |-> b.partition,
     inode |-> b.inode, size |-> b.size, deleted |-> b.deleted]

\* Rows of any order, kind spelling and validity, over two paths.
GenRows ==
    {MakeRow(t, k, p, b) :
        t \in {"not-a-time", "2023-01-01T00:00:00Z", "2023-01-01T00:00:01Z"},
        k \in {"CRTIME", "crtime", "ATIME"},
        p \in {"/a", "/b"},
        b \in AttrBundles}

WellFormed(rows) == [exists |-> TRUE, columns |-> RequiredSet, rows |-> rows]

SampleRow ==
    MakeRow("2023-01-01T00:00:00Z", "CRTIME", "/a",
            CHOOSE b \in AttrBundles : b.inode = 12)

\* A table whose header lacks required columns: its rows have no such cells.
Headless(columns) ==
    [exists  |-> TRUE,
     columns |-> columns,
     rows    |-> <<[c \in columns |-> SampleRow[c]]>>]

Malformed ==
    {[exists |-> FALSE, columns |-> {}, rows |-> <<>>]}
    \cup {Headless(c) : c \in (SUBSET RequiredSet) \ {RequiredSet}}

GenInputs == {WellFormed(rows) : rows \in SeqsUpTo(GenRows, MaxRows)} \cup Malformed

\* One entry as the extractor sees it: at most one row per kind.
TimeTexts ==
    {"2022-12-31T23:59:59Z", "2022-12-31T23:59:59.000000001Z",
     "2022-12-31T23:59:59.999999999Z", "2023-01-01T00:00:00Z",
     "2023-01-01T00:00:00.5Z", "2023-01-01T00:00:01Z"}

Kinds == <<"CRTIME", "MTIME", "ATIME", "CTIME">>

KindsLower == <<"crtime", "mtime", "atime", "ctime">>

KindSet == {Kinds[i] : i \in 1..Len(Kinds)}

Absent == "absent"

\* The rows of one entry: times[k] is the time text of kind k (or Absent),
\* spelling the way the type cells are written.
EntryRows(times, b, spelling) ==
    LET present == SelectSeq(<<1, 2, 3, 4>>, LAMBDA i : times[Kinds[i]] # Absent)
    IN  [n \in 1..Len(present) |->
            MakeRow(times[Kinds[present[n]]], spelling[present[n]],
                    "/home/user/doc.txt", b)]

EntryInputs ==
    {WellFormed(EntryRows(times, b, spelling)) :
        times \in [KindSet -> TimeTexts \cup {Absent, "not-a-time"}],
        b \in AttrBundles,
        spelling \in {Kinds, KindsLower}}
    \cup Malformed

ChoiceTexts == {"1", "2", "3", "7", "abc"}

\* ------------------------------------------------------------- Analyser
InitAnalyser(inputs) ==
    /\ pc = "select"
    /\ csv \in inputs
    /\ choice = 0
    /\ stdout = <<>>
    /\ df_events = <<>>
    /\ df_files = <<>>
    /\ report = [title |-> "", rows |-> <<>>]

InitWalk ==
    /\ wpc = "idle"
    /\ depth = 0
    /\ counter = 0
    /\ yielded = 0

\* main: int(input(...)) raises, or the number is no option: main returns.
SelectInvalid ==
    /\ pc = "select"
    /\ \E s \in ChoiceTexts : ~IsInt(s) \/ IntOf(s) \notin {1, 2, 3}
    /\ pc' = "returned"
    /\ UNCHANGED <<csv, choice, stdout, df_events, df_files, report>>
    /\ UNCHANGED walkVars

SelectOption ==
    /\ pc = "select"
    /\ \E s \in ChoiceTexts :
          /\ IsInt(s)
          /\ IntOf(s) \in {1, 2, 3}
          /\ choice' = IntOf(s)
    /\ pc' = "load_csv"
    /\ UNCHANGED <<csv, stdout, df_events, df_files, report>>
    /\ UNCHANGED walkVars

\* load_csv: timeline.csv is not there.
LoadCsvNotFound ==
    /\ pc = "load_csv"
    /\ ~csv.exists
    /\ stdout' = Append(stdout, <<"timeline.csv not found">>)
    /\ pc' = "exit"
    /\ UNCHANGED <<csv, choice, df_events, df_files, report>>
    /\ UNCHANGED walkVars

\* load_csv: the loop over `required` meets a column the header lacks.
LoadCsvMissingColumn ==
    /\ pc = "load_csv"
    /\ csv.exists
    /\ FirstMissing(csv.columns, 1) # "none"
    /\ stdout' = Append(stdout, <<"Missing column", FirstMissing(csv.columns, 1)>>)
    /\ pc' = "exit"
    /\ UNCHANGED <<csv, choice, df_events, df_files, report>>
    /\ UNCHANGED walkVars

LoadCsv ==
    /\ pc = "load_csv"
    /\ csv.exists
    /\ FirstMissing(csv.columns, 1) = "none"
    /\ df_events' \in SortValues(ParseRows(csv.rows))
    /\ pc' = "build_file_table"
    /\ UNCHANGED <<csv, choice, stdout, df_files, report>>
    /\ UNCHANGED walkVars

BuildFileTable ==
    /\ pc = "build_file_table"
    /\ df_files' = build_file_table(df_events)
    /\ pc' = "detect"
    /\ UNCHANGED <<csv, choice, stdout, df_events, report>>
    /\ UNCHANGED walkVars

Detect ==
    /\ pc = "detect"
    /\ df_files' = detect(df_files)
    /\ pc' = "generate_html"
    /\ UNCHANGED <<csv, choice, stdout, df_events, report>>
    /\ UNCHANGED walkVars

GenerateHtml ==
    /\ pc = "generate_html"
    /\ report' = generate_html(choice, df_events, df_files)
    /\ pc' = "done"
    /\ UNCHANGED <<csv, choice, stdout, df_events, df_files>>
    /\ UNCHANGED walkVars

NextAnalyser ==
    \/ SelectInvalid
    \/ SelectOption
    \/ LoadCsvNotFound
    \/ LoadCsvMissingColumn
    \/ LoadCsv
    \/ BuildFileTable
    \/ Detect
    \/ GenerateHtml

\* Analyser.main on tables of rows in any order.
Init == InitAnalyser(GenInputs) /\ InitWalk

Next == NextAnalyser

Spec == Init /\ [][Next]_vars

\* Analyser.main on the rows of one filesystem entry.
InitEntry == InitAnalyser(EntryInputs) /\ InitWalk

SpecEntry == InitEntry /\ [][Next]_vars

\* ------------------------------------------------------- walk_directory
\* What `for entry in directory` hands the loop body: the entry's name (none,
\* ".", "..", or a real one), whether reading the entry raises, its meta type
\* and whether as_directory() opens it.
DirEntries ==
    [name   : {"", ".", "..", "doc.txt"},
     raises : BOOLEAN,
     meta   : {"none", "reg", "dir"},
     opens  : BOOLEAN]

\* Variant of LimitReached: the walk stops one entry late.
LimitReachedStrict(c) == c > SCAN_LIMIT

\* if counter[0] >= SCAN_LIMIT
LimitReached(c) == c >= SCAN_LIMIT

\* The entry is passed over: no name, "." or "..", or reading its name raises.
Skipped(e) == e.raises \/ e.name = "" \/ e.name \in {".", ".."}

\* The entry is a directory that the walk descends into.
Descends(e) == e.meta = "dir" /\ e.opens

\* extract_timeline: for entry, path in walk_directory(root) starts the
\* generator on the root directory, with the default counter list.
StartWalk ==
    /\ wpc = "idle"
    /\ wpc' = "walking"
    /\ depth' = 1
    /\ UNCHANGED <<counter, yielded>>
    /\ UNCHANGED analyserVars

\* The innermost frame returns; the frame below resumes at its loop, and the
\* walk is over when the root frame returns.
Return ==
    /\ depth' = depth - 1
    /\ wpc' = IF depth = 1 THEN "finished" ELSE "walking"

\* The directory of the innermost frame has no further entry.
WalkExhausted ==
    /\ wpc = "walking"
    /\ Return
    /\ UNCHANGED <<counter, yielded>>
    /\ UNCHANGED analyserVars

\* An entry arrives and the limit is reached: return.
WalkLimit ==
    /\ wpc = "walking"
    /\ \E e \in DirEntries : LimitReached(counter)
    /\ Return
    /\ UNCHANGED <<counter, yielded>>
    /\ UNCHANGED analyserVars

\* An entry arrives that the loop passes over: continue.
WalkSkip ==
    /\ wpc = "walking"
    /\ ~LimitReached(counter)
    /\ \E e \in DirEntries : Skipped(e)
    /\ UNCHANGED walkVars
    /\ UNCHANGED analyserVars

\* An entry is counted and yielded; it is no directory, or its directory
\* cannot be opened, and the loop goes on in the same frame.
WalkYield ==
    /\ wpc = "walking"
    /\ ~LimitReached(counter)
    /\ \E e \in DirEntries : ~Skipped(e) /\ ~Descends(e)
    /\ counter' = counter + 1
    /\ yielded' = yielded + 1
    /\ UNCHANGED <<wpc, depth>>
    /\ UNCHANGED analyserVars

\* A directory is counted and yielded, then walked by a nested frame that
\* shares the counter.
WalkDescend ==
    /\ wpc = "walking"
    /\ ~LimitReached(counter)
    /\ depth < MaxDepth
    /\ \E e \in DirEntries : ~Skipped(e) /\ Descends(e)
    /\ counter' = counter + 1
    /\ yielded' = yielded + 1
    /\ depth' = depth + 1
    /\ UNCHANGED wpc
    /\ UNCHANGED analyserVars

NextWalk ==
    \/ StartWalk
    \/ WalkExhausted
    \/ WalkLimit
    \/ WalkSkip
    \/ WalkYield
    \/ WalkDescend

\* Extractor.extract_timeline's walk of one filesystem.
InitWalkOnly ==
    /\ InitAnalyser({[exists |-> FALSE, columns |-> {}, rows |-> <<>>]})
    /\ InitWalk

SpecWalk == InitWalkOnly /\ [][NextWalk]_vars

\* ===================================================================
\* Properties
\* ===================================================================
\* main has built the file records; detect has annotated them.
Built == pc \in {"detect", "generate_html", "done"}

Detected == pc \in {"generate_html", "done"}

Range(f) == {f[i] : i \in DOMAIN f}

\* A time cell that denotes an instant.
Parseable(text) == text \in TimeTexts

\* A deleted cell that reads as true.
Truthy(text) == text \in {"True", "TRUE", "true", "Yes", "YES", "yes", "1"}

\* The spellings of a kind, compared without regard to case.
Spellings(k) ==
    CASE k = "CRTIME" -> {"CRTIME", "crtime", "Crtime"}
      [] k = "MTIME"  -> {"MTIME", "mtime"}
      [] k = "ATIME"  -> {"ATIME", "atime"}
      [] k = "CTIME"  -> {"CTIME", "ctime"}

\* Input events (by position in the table) of a path; those of a kind with
\* a parseable time; the instant of one.
EventsOf(path) == {i \in 1..Len(csv.rows) : csv.rows[i].path = path}

ValidOf(path) == {i \in EventsOf(path) : Parseable(csv.rows[i].time)}

ValidEventsOf(path, k) ==
    {i \in ValidOf(path) : csv.rows[i].type \in Spellings(k)}

Instant(i) == ToDatetime(csv.rows[i].time)

\* The timestamps a record has.
Present(r) == {k \in KindSet : Get(r, k) # NaT}

\* The record carries the four attributes of input event i.
SeededFrom(r, i) ==
    /\ r.partition = csv.rows[i].partition
    /\ r.inode = csv.rows[i].inode
    /\ r.size = csv.rows[i].size
    /\ r.deleted = Truthy(csv.rows[i].deleted)

\* ------------------------------------------------------------------ C1
DocBundle == CHOOSE b \in AttrBundles : b.deleted = "False"

DocScenario ==
    csv = WellFormed(
        <<MakeRow("2023-01-01T00:00:00Z",   "CRTIME", "/home/user/doc.txt", DocBundle),
          MakeRow("2023-01-01T00:00:00.5Z", "MTIME",  "/home/user/doc.txt", DocBundle),
          MakeRow("2022-12-31T23:59:59Z",   "ATIME",  "/home/user/doc.txt", DocBundle),
          MakeRow("2023-01-01T00:00:01Z",   "CTIME",  "/home/user/doc.txt", DocBundle)>>)

\* C1 as stated: the doc.txt scenario yields the flags "Access before
\* creation" and "Rapid timestamp activity (<2s)", in that order, and
\* suspicious = true.
C1_AsStated ==
    (DocScenario /\ Detected) =>
        /\ Len(df_files) = 1
        /\ df_files[1].flags =
              <<"Access before creation", "Rapid timestamp activity (<2s)">>
        /\ df_files[1].suspicious

\* C1 amended: the doc.txt scenario (ATIME 23:59:59 to CTIME 00:00:01 is a
\* spread of exactly two seconds) yields the single flag "Access before
\* creation", and suspicious = true.
C1_DocScenario ==
    (DocScenario /\ Detected) =>
        /\ Len(df_files) = 1
        /\ df_files[1].path = "/home/user/doc.txt"
        /\ df_files[1].flags = <<"Access before creation">>
        /\ df_files[1].suspicious

C1_Witness == DocScenario /\ pc = "done" /\ Len(df_files) = 1

FirstOf(S) == CHOOSE i \in S : \A j \in S : i <= j

\* C3 as stated: a record's partition, inode, size and deleted are those of
\* the first event of its path in input order, whatever the times; stated for
\* the paths whose events have parseable, pairwise different times, where the
\* order load_csv produces is determined.
C3_AsStated ==
    Built =>
        \A n \in 1..Len(df_files) :
            LET events == EventsOf(df_files[n].path)
            IN  (/\ events = ValidOf(df_files[n].path)
                 /\ \A i, j \in events : i # j => Instant(i) # Instant(j))
                => SeededFrom(df_files[n], FirstOf(events))

\* C3 amended: a record's partition, inode, size and deleted are those of the
\* event of its path that is first after load_csv has sorted by time: an event
\* with the earliest parseable time of the path (any one of them when several
\* share it), and the first event of the path in input order only when none of
\* its events has a parseable time.
C3_SeedFromEarliest ==
    Built =>
        \A n \in 1..Len(df_files) :
            LET path == df_files[n].path
                valid == ValidOf(path)
            IN  IF valid = {}
                  THEN SeededFrom(df_files[n], FirstOf(EventsOf(path)))
                  ELSE \E i \in valid :
                          /\ \A j \in valid : Instant(i) <= Instant(j)
                          /\ SeededFrom(df_files[n], i)

C3_Witness ==
    /\ Built
    /\ \E n \in 1..Len(df_files) :
          LET path == df_files[n].path
          IN  \E i, j \in ValidOf(path) :
                 /\ i < j
                 /\ Instant(j) < Instant(i)
                 /\ csv.rows[i].inode # csv.rows[j].inode
                 /\ SeededFrom(df_files[n], j)

\* ------------------------------------------------------------------ C4
\* C4 as stated: with several valid events of one path and kind, the
\* record's timestamp of that kind is the time of the last of them in the
\* input sequence.
C4_AsStated ==
    Built =>
        \A n \in 1..Len(df_files) : \A k \in KindSet :
            LET same == ValidEventsOf(df_files[n].path, k)
            IN  Cardinality(same) >= 2 =>
                    Get(df_files[n], k) =
                        Instant(CHOOSE i \in same : \A j \in same : j <= i)

\* C4 amended: with several valid events of one path and kind, the record's
\* timestamp of that kind is the time of the one processed last after
\* load_csv has sorted by time, that is the latest of their times.
C4_LatestTimeWins ==
    Built =>
        \A n \in 1..Len(df_files) : \A k \in KindSet :
            LET same == ValidEventsOf(df_files[n].path, k)
            IN  Cardinality(same) >= 2 =>
                    /\ \E i \in same : Get(df_files[n], k) = Instant(i)
                    /\ \A j \in same : Instant(j) <= Get(df_files[n], k)

C4_Witness ==
    /\ Built
    /\ \E n \in 1..Len(df_files) : \E k \in KindSet :
          \E i, j \in ValidEventsOf(df_files[n].path, k) :
              /\ i < j
              /\ Instant(j) < Instant(i)
              /\ csv.rows[i].type # csv.rows[j].type
              /\ Get(df_files[n], k) = Instant(i)

\* ------------------------------------------------------------------ C5
\* C5: a record has a timestamp of a kind if and only if the input has an
\* event of its path and that kind (in any case) with a parseable time.
C5_FieldCompleteness ==
    Built =>
        \A n \in 1..Len(df_files) : \A k \in KindSet :
            (k \in Present(df_files[n])) <=>
                (ValidEventsOf(df_files[n].path, k) # {})

C5_Witness ==
    /\ Built
    /\ Len(df_files) = 1
    /\ Present(df_files[1]) = {"MTIME", "CTIME"}
    /\ \E i \in EventsOf(df_files[1].path) :
          csv.rows[i].type = "atime" /\ ~Parseable(csv.rows[i].time)
    /\ \E i \in EventsOf(df_files[1].path) : csv.rows[i].type = "mtime"

\* ------------------------------------------------------------------ C6
RapidFlag == "Rapid timestamp activity (<2s)"

\* C6: a record is flagged "Rapid timestamp activity (<2s)" if and only if
\* at least 3 of its 4 timestamps are present and the latest is less than two
\* seconds after the earliest.
C6_RapidActivity ==
    Detected =>
        \A n \in 1..Len(df_files) :
            LET r == df_files[n]
            IN  (RapidFlag \in Range(r.flags)) <=>
                    /\ Cardinality(Present(r)) >= 3
                    /\ \A x, y \in Present(r) : r[x] - r[y] < 2000000000

C6_Witness ==
    /\ Detected
    /\ \E n \in 1..Len(df_files) :
          LET r == df_files[n]
          IN  /\ Cardinality(Present(r)) = 3
              /\ \E x, y \in Present(r) : r[x] - r[y] = 1999999999
              /\ RapidFlag \in Range(r.flags)

\* ------------------------------------------------------------------ C7
AccessFlag == "Access before creation"

\* C7: a record is flagged "Access before creation" if and only if crtime
\* and atime are both present and atime is strictly earlier than crtime.
C7_AccessBeforeCreation ==
    Detected =>
        \A n \in 1..Len(df_files) :
            LET r == df_files[n]
            IN  (AccessFlag \in Range(r.flags)) <=>
                    /\ {"CRTIME", "ATIME"} \subseteq Present(r)
                    /\ r["ATIME"] < r["CRTIME"]

C7_Witness ==
    /\ Detected
    /\ \E n \in 1..Len(df_files) :
          LET r == df_files[n]
          IN  /\ {"CRTIME", "ATIME"} \subseteq Present(r)
              /\ r["CRTIME"] - r["ATIME"] = 1
              /\ AccessFlag \in Range(r.flags)

\* ------------------------------------------------------------------ C8
DeletedFlag == "Deleted file accessed"

\* C8: a record with deleted = true is flagged "Deleted file accessed" if
\* and only if its atime is present, whatever its other timestamps; a record
\* with deleted = false never is.
C8_DeletedAccessed ==
    Detected =>
        \A n \in 1..Len(df_files) :
            LET r == df_files[n]
            IN  /\ r.deleted =>
                     ((DeletedFlag \in Range(r.flags)) <=> ("ATIME" \in Present(r)))
                /\ ~r.deleted => DeletedFlag \notin Range(r.flags)

C8_Witness ==
    /\ Detected
    /\ \E n \in 1..Len(df_files) :
          LET r == df_files[n]
          IN  /\ r.deleted
              /\ Present(r) = {"ATIME"}
              /\ r.flags = <<DeletedFlag>>

\* ------------------------------------------------------------------ C9
MissingColumns == RequiredSet \ csv.columns

Reported == {m[2] : m \in {x \in Range(stdout) : x[1] = "Missing column"}}

NothingBuilt ==
    /\ pc \in {"select", "returned", "load_csv", "exit"}
    /\ df_events = <<>>
    /\ df_files = <<>>
    /\ report.title = ""

\* C9 as stated: a table lacking required columns fails validation, the
\* columns that are missing are reported, and no record is built.
C9_AsStated ==
    (csv.exists /\ MissingColumns # {}) =>
        /\ NothingBuilt
        /\ pc = "exit" => Reported = MissingColumns

\* C9 amended: a table lacking required columns fails validation, reporting
\* the first missing column in the order time, type, path, partition, inode,
\* size, deleted (and only that one), and no record is built.
C9_FailFast ==
    (csv.exists /\ MissingColumns # {}) =>
        /\ NothingBuilt
        /\ pc = "exit" =>
              /\ Len(stdout) = 1
              /\ \E i \in 1..Len(Required) :
                    /\ Required[i] \in MissingColumns
                    /\ \A j \in 1..(i - 1) : Required[j] \notin MissingColumns
                    /\ stdout[1] = <<"Missing column", Required[i]>>

C9_Witness ==
    /\ csv.exists
    /\ MissingColumns = {"path", "size"}
    /\ pc = "exit"
    /\ Reported = {"path"}

\* ----------------------------------------------------------------- C10
\* C10: walk_directory yields at most SCAN_LIMIT entries over all nested
\* directories, counts exactly the entries it yields, and once the count has
\* reached SCAN_LIMIT every step returns from a frame without yielding.
C10_ScanLimit ==
    /\ [](yielded <= 10000 /\ counter = yielded)
    /\ [][counter >= 10000 => (yielded' = yielded /\ depth' = depth - 1)]_vars

C10_Witness == wpc = "finished" /\ yielded = 10000

====
